---- MODULE Spec2Model ----
(***************************************************************************)
(* English-for-Kids API (src/main.py, src/schemas.py): the lesson, word    *)
(* and progress collections of the document store, the HTTP handlers over  *)
(* them and the demo-content seeder.  Every store call is one atomic step; *)
(* a handler's action is the store call together with the local            *)
(* computation that follows it up to the next store call or the return.    *)
(*                                                                         *)
(* database.py (db, create_document, get_documents) is not among the       *)
(* sources; the store is modelled from its contract.  A handle that is     *)
(* None behaves like an empty store whose calls all raise, which is one of *)
(* the behaviours of the failing store modelled here.                      *)
(***************************************************************************)
EXTENDS Integers, Sequences, FiniteSets, TLC

VARIABLES
    db,        \* collection name -> documents, in insertion order
    nextOid,   \* collection name -> number of identifiers handed out
    clients,   \* the clients that issue requests
    seed,      \* client -> position and locals of its seed_content call
    resp,      \* client -> the response to its last completed request
    call,      \* client -> outcome of the last store call made for it
    lastRun,   \* the client whose seed step ran last (0: none yet)
    preempt    \* how often a seed step ran while another seed was under way

vars == <<db, nextOid, clients, seed, resp, call, lastRun, preempt>>

-----------------------------------------------------------------------------
(* Bounds *)

\* progress records the store accepts before the model stops submitting
MaxProgress == 2
\* switches between two seed requests that are both under way
MaxPreempt == 2

Reqs == {1, 2}
Collections == {"lesson", "word", "progress"}

-----------------------------------------------------------------------------
(* Values *)

\* Optional[int]: None is the empty tuple, a value v is <<v>>
None == <<>>
Some(v) == <<v>>

\* the empty mapping {}
EmptyDoc == <<>>

\* the natural orders in which the store may hand back a collection
Orders == {"forward", "reverse"}

\* exception messages a failing store call can carry
ErrMsgs == {"store unreachable", "timed out"}
NoExc == [raised |-> FALSE, msg |-> ""]
Exc(m) == [raised |-> TRUE, msg |-> m]

\* str(e) of an exception
ExcStr(e) == e.msg

\* a store-assigned identifier, and its string form str(_id)
ObjectId(c, n) == [coll |-> c, n |-> n]
OidStr(oid) == oid.coll \o ":" \o ToString(oid.n)

-----------------------------------------------------------------------------
(* Utilities: src/main.py 21-31 *)

\* without popping "_id": the identifier is copied, the raw field stays
serialize_doc_keep_raw(doc) ==
    IF DOMAIN doc = {} THEN doc
    ELSE IF "_id" \in DOMAIN doc
         THEN [k \in DOMAIN doc \cup {"id"} |->
                  IF k = "id" THEN OidStr(doc["_id"]) ELSE doc[k]]
         ELSE doc

serialize_doc(doc) ==
    IF DOMAIN doc = {} THEN doc
    ELSE IF "_id" \in DOMAIN doc
         THEN [k \in (DOMAIN doc \ {"_id"}) \cup {"id"} |->
                  IF k = "id" THEN OidStr(doc["_id"]) ELSE doc[k]]
         ELSE doc

serialize_list(docs) == [i \in 1..Len(docs) |-> serialize_doc(docs[i])]

-----------------------------------------------------------------------------
(* Document store adapter (database.py, modelled from its contract) *)

Stored(c, data) ==
    [k \in DOMAIN data \cup {"_id"} |->
        IF k = "_id" THEN ObjectId(c, nextOid[c] + 1) ELSE data[k]]

\* the identifier create_document returns for the document it inserts now
NewId(c) == OidStr(ObjectId(c, nextOid[c] + 1))

\* create_document(collection_name, data): one new document persisted
create_document(c, data) ==
    /\ db' = [db EXCEPT ![c] = Append(@, Stored(c, data))]
    /\ nextOid' = [nextOid EXCEPT ![c] = @ + 1]

Matches(doc, filter) ==
    \A k \in DOMAIN filter : k \in DOMAIN doc /\ doc[k] = filter[k]

Reverse(s) == [i \in 1..Len(s) |-> s[Len(s) + 1 - i]]

Cap(s, limit) ==
    IF limit = None \/ Len(s) <= limit[1] THEN s ELSE SubSeq(s, 1, limit[1])

\* get_documents(collection_name, filter, limit): the matching documents in
\* the store's order ord, capped at limit
get_documents(c, filter, limit, ord) ==
    LET Test(d) == Matches(d, filter)
        hits == SelectSeq(db[c], Test)
    IN  Cap(IF ord = "forward" THEN hits ELSE Reverse(hits), limit)

\* db[c].count_documents({})
count_documents(c) == Len(db[c])

\* what a read of the store can come to: the documents, or an exception
StoreRead(c, filter, limit) ==
    {[exc |-> NoExc, docs |-> get_documents(c, filter, limit, ord)] :
        ord \in Orders}
    \cup {[exc |-> Exc(m), docs |-> <<>>] : m \in ErrMsgs}

\* no exception and no documents: an insert, a count, or no call at all
Returned == [exc |-> NoExc, docs |-> <<>>]
Failed(m) == [exc |-> Exc(m), docs |-> <<>>]

-----------------------------------------------------------------------------
(* Responses *)

NoArgs == <<>>
NoResp == [route |-> "", args |-> NoArgs, status_code |-> 0, body |-> EmptyDoc]
Ok(body) == [status_code |-> 200, body |-> body]

\* raise HTTPException(status_code=500, detail=str(e))
HTTPException500(e) == [status_code |-> 500, body |-> [detail |-> ExcStr(e)]]

\* the framework's answer to a body that fails ProgressIn
Unprocessable == [status_code |-> 422, body |-> EmptyDoc]

-----------------------------------------------------------------------------
(* Request bodies: ProgressIn, src/main.py 82-87 *)

\* JSON bodies a client posts to /api/progress
Bodies ==
    { [user_id |-> "guest", lesson_id |-> "lesson:1", correct |-> 1],
      [user_id |-> "guest", lesson_id |-> "lesson:1", correct |-> 2,
       incorrect |-> 1, last_score |-> 3],
      [user_id |-> "", lesson_id |-> "lesson:1"],
      [user_id |-> "guest", lesson_id |-> ""],
      [user_id |-> "guest", lesson_id |-> "lesson:2", correct |-> -1,
       incorrect |-> -1],
      [lesson_id |-> "lesson:1", correct |-> 1] }

\* path parameters of the GET routes (a path segment is never empty)
UserIds == {"guest", "dana"}
LessonIds == {"lesson:1", "lesson:2"}

\* ProgressIn accepts a body that has the two required strings; the integers
\* are unconstrained
ProgressIn(body) == {"user_id", "lesson_id"} \subseteq DOMAIN body

\* payload.model_dump(): the five fields, defaults filled in
model_dump(body) ==
    [user_id |-> body.user_id,
     lesson_id |-> body.lesson_id,
     correct |-> IF "correct" \in DOMAIN body THEN body.correct ELSE 0,
     incorrect |-> IF "incorrect" \in DOMAIN body THEN body.incorrect ELSE 0,
     last_score |-> IF "last_score" \in DOMAIN body
                    THEN Some(body.last_score) ELSE None]

-----------------------------------------------------------------------------
(* Content and progress endpoints: src/main.py 92-128 *)

Idle(r) == r \in clients /\ seed[r].pc = "idle"

\* the store call made for client r came to outcome, and r is answered
Answer(r, route, args, outcome, response) ==
    /\ call' = [call EXCEPT ![r] = outcome]
    /\ resp' = [resp EXCEPT ![r] =
                  [route |-> route, args |-> args,
                   status_code |-> response.status_code,
                   body |-> response.body]]

\* an except clause that answers with an empty list instead of raising
list_response_swallow(outcome) ==
    IF outcome.exc.raised
    THEN Ok(<<>>)
    ELSE Ok(serialize_list(outcome.docs))

\* try: return serialize_list(docs) / except: raise HTTPException(500)
list_response(outcome) ==
    IF outcome.exc.raised
    THEN HTTPException500(outcome.exc)
    ELSE Ok(serialize_list(outcome.docs))

list_lessons(r) ==
    /\ Idle(r)
    /\ \E outcome \in StoreRead("lesson", EmptyDoc, None) :
          Answer(r, "lessons", NoArgs, outcome, list_response(outcome))
    /\ UNCHANGED <<db, nextOid, clients, seed, lastRun, preempt>>

list_words_for_lesson(r, lesson_id) ==
    /\ Idle(r)
    /\ \E outcome \in StoreRead("word", [lesson_id |-> lesson_id], None) :
          Answer(r, "words", <<lesson_id>>, outcome, list_response(outcome))
    /\ UNCHANGED <<db, nextOid, clients, seed, lastRun, preempt>>

\* an upsert: the record of the same user and lesson is replaced
submit_progress_store_upsert(data) ==
    LET Same(d) == d.user_id = data.user_id /\ d.lesson_id = data.lesson_id
        Other(d) == ~Same(d)
    IN  /\ db' = [db EXCEPT !["progress"] =
                    Append(SelectSeq(@, Other), Stored("progress", data))]
        /\ nextOid' = [nextOid EXCEPT !["progress"] = @ + 1]

\* new_id = create_document("progress", data)
submit_progress_store(data) == create_document("progress", data)

submit_progress(r, body) ==
    /\ Idle(r)
    /\ Len(db["progress"]) < MaxProgress
    /\ IF ~ProgressIn(body)
       THEN /\ resp' = [resp EXCEPT ![r] =
                          [route |-> "submit", args |-> <<body>>,
                           status_code |-> Unprocessable.status_code,
                           body |-> Unprocessable.body]]
            /\ call' = [call EXCEPT ![r] = Returned]
            /\ UNCHANGED <<db, nextOid>>
       ELSE \/ /\ submit_progress_store(model_dump(body))
               /\ Answer(r, "submit", <<body>>, Returned,
                         Ok([id |-> NewId("progress"), status |-> "ok"]))
            \/ \E m \in ErrMsgs :
                  /\ Answer(r, "submit", <<body>>, Failed(m),
                            HTTPException500(Exc(m)))
                  /\ UNCHANGED <<db, nextOid>>
    /\ UNCHANGED <<clients, seed, lastRun, preempt>>

\* answers the sentinel whatever was found
get_progress_pick_none(docs) == [status |-> "none"]

\* serialize_doc(docs[0]) if docs else {"status": "none"}
get_progress_pick(docs) ==
    IF docs # <<>> THEN serialize_doc(docs[1]) ELSE [status |-> "none"]

\* a filter on the user alone
get_progress_filter_user(user_id, lesson_id) == [user_id |-> user_id]

\* {"user_id": user_id, "lesson_id": lesson_id}
get_progress_filter(user_id, lesson_id) ==
    [user_id |-> user_id, lesson_id |-> lesson_id]

get_progress_response(outcome) ==
    IF outcome.exc.raised
    THEN HTTPException500(outcome.exc)
    ELSE Ok(get_progress_pick(outcome.docs))

get_progress(r, user_id, lesson_id) ==
    /\ Idle(r)
    /\ \E outcome \in StoreRead("progress",
                                get_progress_filter(user_id, lesson_id),
                                Some(1)) :
          Answer(r, "progress", <<user_id, lesson_id>>, outcome,
                 get_progress_response(outcome))
    /\ UNCHANGED <<db, nextOid, clients, seed, lastRun, preempt>>

-----------------------------------------------------------------------------
(* Seeder: src/main.py 133-187 *)

\* the titles, descriptions and emoji of the source are written in ASCII
demo_lessons ==
    << [title |-> "tsvaim", english_title |-> "Colors",
        description |-> "basic colors", level |-> "beginner",
        cover_emoji |-> "palette"],
       [title |-> "chayot", english_title |-> "Animals",
        description |-> "common animals", level |-> "beginner",
        cover_emoji |-> "paws"],
       [title |-> "okhel", english_title |-> "Food",
        description |-> "tasty food", level |-> "beginner",
        cover_emoji |-> "apple"] >>

color_words ==
    << [english |-> "red", hebrew |-> "adom"],
       [english |-> "blue", hebrew |-> "kachol"],
       [english |-> "green", hebrew |-> "yarok"],
       [english |-> "yellow", hebrew |-> "tsahov"] >>

animal_words ==
    << [english |-> "dog", hebrew |-> "kelev"],
       [english |-> "cat", hebrew |-> "chatul"],
       [english |-> "bird", hebrew |-> "tsipor"],
       [english |-> "fish", hebrew |-> "dag"] >>

food_words ==
    << [english |-> "apple", hebrew |-> "tapuach"],
       [english |-> "bread", hebrew |-> "lechem"],
       [english |-> "milk", hebrew |-> "chalav"],
       [english |-> "cheese", hebrew |-> "gvina"] >>

\* the three for loops over the word lists, in the order they run
word_loops == <<color_words, animal_words, food_words>>

NumLessons == Len(demo_lessons)
WordsPerLoop == Len(color_words)
\* the loop over food_words left out
NumWords_without_food == Len(color_words) + Len(animal_words)

NumWords == Len(color_words) + Len(animal_words) + Len(food_words)

\* every word tagged with the first lesson
lesson_index_first(n) == 1

\* the loop that inserts the word created after n words: loop i tags its
\* words with lesson_ids[i - 1]
lesson_index(n) == (n \div WordsPerLoop) + 1

\* {**w, "lesson_id": lesson_ids[i]} for the word created after n words
next_word(n, lesson_ids) ==
    LET w == word_loops[lesson_index(n)][(n % WordsPerLoop) + 1]
    IN  [english |-> w.english, hebrew |-> w.hebrew,
         lesson_id |-> lesson_ids[lesson_index(n)]]

SeedIdle == [pc |-> "idle", lesson_ids |-> <<>>,
             created |-> [lessons |-> 0, words |-> 0]]

\* a seed step of r is a switch when another client's seed ran last and is
\* still under way
Switch(r) == lastRun \notin {0, r} /\ seed[lastRun].pc # "idle"

Schedule(r) ==
    /\ r \in clients
    /\ Switch(r) => preempt < MaxPreempt
    /\ preempt' = IF Switch(r) THEN preempt + 1 ELSE preempt
    /\ lastRun' = r

\* seeds whatever the count
seed_proceeds_always(lessons_count) == TRUE

\* if lessons_count == 0
seed_proceeds(lessons_count) == lessons_count = 0

\* lines 137-140 and 182-183: the count, then the branch
seed_count(r) ==
    /\ seed[r].pc = "idle"
    /\ Schedule(r)
    /\ IF seed_proceeds(count_documents("lesson"))
       THEN /\ seed' = [seed EXCEPT ![r] =
                          [pc |-> "lessons", lesson_ids |-> <<>>,
                           created |-> [lessons |-> 0, words |-> 0]]]
            /\ call' = [call EXCEPT ![r] = Returned]
            /\ resp' = [resp EXCEPT ![r] = NoResp]
       ELSE /\ Answer(r, "seed", NoArgs, Returned,
                      Ok([status |-> "exists",
                          message |-> "Lessons already seeded"]))
            /\ UNCHANGED seed
    /\ UNCHANGED <<db, nextOid, clients>>

\* lines 148-151: one turn of the loop over demo_lessons
seed_create_lesson(r) ==
    /\ seed[r].pc = "lessons"
    /\ Schedule(r)
    /\ LET n == seed[r].created.lessons
       IN  /\ create_document("lesson", demo_lessons[n + 1])
           /\ seed' = [seed EXCEPT ![r] =
                         [pc |-> IF n + 1 = NumLessons
                                 THEN "words" ELSE "lessons",
                          lesson_ids |-> Append(@.lesson_ids, NewId("lesson")),
                          created |-> [@.created EXCEPT !.lessons = n + 1]]]
    /\ call' = [call EXCEPT ![r] = Returned]
    /\ UNCHANGED <<clients, resp>>

\* lines 173-181 and 185: one turn of the loops over the word lists; after
\* the last one the handler returns
seed_create_word(r) ==
    /\ seed[r].pc = "words"
    /\ Schedule(r)
    /\ LET n == seed[r].created.words
           created == [seed[r].created EXCEPT !.words = n + 1]
       IN  /\ create_document("word", next_word(n, seed[r].lesson_ids))
           /\ IF n + 1 = NumWords
              THEN /\ seed' = [seed EXCEPT ![r] = SeedIdle]
                   /\ Answer(r, "seed", NoArgs, Returned,
                             Ok([status |-> "ok", created |-> created]))
              ELSE /\ seed' = [seed EXCEPT ![r].created = created]
                   /\ call' = [call EXCEPT ![r] = Returned]
                   /\ UNCHANGED resp
    /\ UNCHANGED clients

\* lines 186-187: the store call the handler is about to make raises
seed_store_raises(r, m) ==
    /\ Schedule(r)
    /\ seed' = [seed EXCEPT ![r] = SeedIdle]
    /\ Answer(r, "seed", NoArgs, Failed(m), HTTPException500(Exc(m)))
    /\ UNCHANGED <<db, nextOid, clients>>

-----------------------------------------------------------------------------
(* Specifications *)

InitStore ==
    /\ db = [c \in Collections |-> <<>>]
    /\ nextOid = [c \in Collections |-> 0]
    /\ seed = [r \in Reqs |-> SeedIdle]
    /\ resp = [r \in Reqs |-> NoResp]
    /\ call = [r \in Reqs |-> Returned]
    /\ lastRun = 0
    /\ preempt = 0

\* one client: its requests run one after the other
Init == InitStore /\ clients = {1}

\* two clients whose seed requests interleave at every store call
InitConc == InitStore /\ clients = Reqs

Seeder(r) ==
    \/ seed_count(r)
    \/ seed_create_lesson(r)
    \/ seed_create_word(r)
    \/ \E m \in ErrMsgs : seed_store_raises(r, m)

Next ==
    \E r \in clients :
        \/ list_lessons(r)
        \/ \E l \in LessonIds : list_words_for_lesson(r, l)
        \/ \E body \in Bodies : submit_progress(r, body)
        \/ \E u \in UserIds, l \in LessonIds : get_progress(r, u, l)
        \/ Seeder(r)

NextConc == \E r \in clients : Seeder(r)

Spec == Init /\ [][Next]_vars

SpecConc == InitConc /\ [][NextConc]_vars

-----------------------------------------------------------------------------
(* Properties *)

Answered(r, route) ==
    r \in clients /\ resp[r].route = route /\ resp[r].status_code = 200

SeedOk(r) == Answered(r, "seed") /\ resp[r].body.status = "ok"
SeedExists(r) == Answered(r, "seed") /\ resp[r].body.status = "exists"

IsNone(body) == DOMAIN body = {"status"} /\ body.status = "none"

\* a stored document without its identifier
Data(doc) == [k \in DOMAIN doc \ {"_id"} |-> doc[k]]

\* the positions of the words that carry lesson_id
WordsOf(lesson_id) ==
    {j \in 1..Len(db["word"]) : db["word"][j].lesson_id = lesson_id}

\* C1: a seed request that runs alone on an empty lesson collection with no
\* failing store call leaves exactly 3 lessons and 12 words, the lesson at
\* position i being carried as lesson_id by exactly the 4 words of word list
\* i, and answers {status: "ok", created: {lessons: 3, words: 12}}; while it
\* runs the collections hold exactly what it has created so far.
C1_SeedCreatesDemoContent ==
    \A r \in clients :
      /\ seed[r].pc # "idle" =>
            /\ Len(db["lesson"]) = seed[r].created.lessons
            /\ Len(db["word"]) = seed[r].created.words
      /\ SeedOk(r) =>
            /\ resp[r].body.created = [lessons |-> 3, words |-> 12]
            /\ Len(db["lesson"]) = 3
            /\ Len(db["word"]) = 12
            /\ \A i \in 1..3 :
                  LET lid == OidStr(db["lesson"][i]["_id"])
                  IN  /\ Data(db["lesson"][i]) = demo_lessons[i]
                      /\ Cardinality(WordsOf(lid)) = 4
                      /\ {[english |-> db["word"][j].english,
                           hebrew |-> db["word"][j].hebrew] :
                             j \in WordsOf(lid)}
                         = {word_loops[i][k] : k \in 1..4}

C1_Witness ==
    /\ SeedOk(1)
    /\ Len(db["lesson"]) = 3
    /\ Len(db["word"]) = 12

\* a step in which client r, with no seed of its own under way, makes a
\* seed request
SeedInvoked(r) ==
    /\ r \in clients
    /\ seed[r].pc = "idle"
    /\ seed'[r].pc # "idle" \/ resp'[r].route = "seed"

\* C2: a seed request made while the lesson collection is not empty writes
\* nothing to any collection and answers status "exists" (500 when the count
\* itself raises), however often it is repeated.
C2_SeedExistsNoWrites ==
    [][\A r \in Reqs :
          (SeedInvoked(r) /\ db["lesson"] # <<>>) =>
              /\ db' = db
              /\ nextOid' = nextOid
              /\ seed'[r].pc = "idle"
              /\ IF call'[r].exc.raised
                 THEN resp'[r].status_code = 500
                 ELSE /\ resp'[r].status_code = 200
                      /\ resp'[r].body.status = "exists"]_vars

C2_Witness ==
    /\ SeedExists(1)
    /\ Len(db["lesson"]) = 3
    /\ Len(db["word"]) = 12
    /\ db["progress"] # <<>>

\* a step in which client r is answered a successful POST /api/progress
Submitted(r) ==
    /\ r \in clients
    /\ resp'[r].route = "submit"
    /\ resp'[r].status_code = 200

Oids(docs) == {docs[i]["_id"] : i \in 1..Len(docs)}

\* C3: a successful POST /api/progress adds exactly one record, whose
\* identifier no stored record has and is the one answered, and leaves every
\* record stored before as it was; the lessons and words are untouched.
C3_SubmitAppendsOne ==
    [][\A r \in Reqs :
          Submitted(r) =>
              LET old == db["progress"]
                  new == db'["progress"]
              IN  /\ Len(new) = Len(old) + 1
                  /\ \A i \in 1..Len(old) : new[i] = old[i]
                  /\ new[Len(new)]["_id"] \notin Oids(old)
                  /\ resp'[r].body.id = OidStr(new[Len(new)]["_id"])
                  /\ Data(new[Len(new)]) = model_dump(resp'[r].args[1])
                  /\ db'["lesson"] = db["lesson"]
                  /\ db'["word"] = db["word"]]_vars

\* two records of the same user and lesson are stored side by side
C3_Witness ==
    /\ Answered(1, "submit")
    /\ \E i, j \in 1..Len(db["progress"]) :
          /\ i < j
          /\ db["progress"][i].user_id = db["progress"][j].user_id
          /\ db["progress"][i].lesson_id = db["progress"][j].lesson_id
          /\ db["progress"][i]["_id"] # db["progress"][j]["_id"]
          /\ db["progress"][i].correct # db["progress"][j].correct

\* the stored progress records of a user and a lesson, oldest first
ProgressOf(user_id, lesson_id) ==
    LET Test(d) == d.user_id = user_id /\ d.lesson_id = lesson_id
    IN  SelectSeq(db["progress"], Test)

\* C4: GET /api/progress/{user_id}/{lesson_id}, when the store call does not
\* raise, answers 200 with {status: "none"} exactly when no stored record has
\* both the user_id and the lesson_id asked for, and otherwise with one
\* stored record that has both.
C4_GetProgressNoneIffNoMatch ==
    \A r \in clients :
        resp[r].route = "progress" =>
            LET user_id == resp[r].args[1]
                lesson_id == resp[r].args[2]
                hits == ProgressOf(user_id, lesson_id)
            IN  /\ resp[r].status_code = 200 <=> ~call[r].exc.raised
                /\ resp[r].status_code = 200 =>
                      /\ IsNone(resp[r].body) <=> hits = <<>>
                      /\ hits # <<>> =>
                            /\ \E i \in 1..Len(hits) :
                                  resp[r].body = serialize_doc(hits[i])
                            /\ resp[r].body.user_id = user_id
                            /\ resp[r].body.lesson_id = lesson_id

\* a record is found although other users' and lessons' records are stored
C4_Witness ==
    /\ Answered(1, "progress")
    /\ ~IsNone(resp[1].body)
    /\ \E i \in 1..Len(db["progress"]) :
          db["progress"][i].user_id # resp[1].args[1]

\* C5: no record of the progress collection has a negative correct or
\* incorrect counter, whatever is posted.
C5_ProgressCountersNonNegative ==
    \A i \in 1..Len(db["progress"]) :
        /\ db["progress"][i].correct >= 0
        /\ db["progress"][i].incorrect >= 0

\* the document the API answers for a stored document: the identifier moved
\* to "id" in its string form, the raw field gone, the rest as stored
Outward(body, doc) ==
    /\ DOMAIN body = (DOMAIN doc \ {"_id"}) \cup {"id"}
    /\ body.id = OidStr(doc["_id"])
    /\ \A k \in DOMAIN doc \ {"_id"} : body[k] = doc[k]

\* C6: the documents answered by the two listing routes and by a progress
\* lookup that found a record are the documents the store returned, as many
\* and in the same order, each with "id" holding the string form of its
\* identifier and without "_id".
C6_SerializedDocuments ==
    \A r \in clients :
        /\ (Answered(r, "lessons") \/ Answered(r, "words")) =>
              /\ Len(resp[r].body) = Len(call[r].docs)
              /\ \A i \in 1..Len(call[r].docs) :
                    Outward(resp[r].body[i], call[r].docs[i])
        /\ (Answered(r, "progress") /\ call[r].docs # <<>>) =>
              Outward(resp[r].body, call[r].docs[1])

\* a listing of several lessons, in an order that is not the insertion order
C6_Witness ==
    /\ Answered(1, "lessons")
    /\ Len(resp[1].body) = 3
    /\ resp[1].body[1].english_title = "Food"
    /\ resp[1].body[3].id = "lesson:1"

\* C7: on every route over the store, a request is answered 500 exactly when
\* a store call made for it raised, and the detail is then the exception's
\* message.
C7_StoreExceptionIs500 ==
    \A r \in clients :
        resp[r].route \in {"lessons", "words", "submit", "progress", "seed"} =>
            /\ call[r].exc.raised <=> resp[r].status_code = 500
            /\ call[r].exc.raised =>
                  resp[r].body = [detail |-> call[r].exc.msg]

\* a seed request fails after its lessons are in and before its last word
C7_Witness ==
    /\ resp[1].route = "seed"
    /\ resp[1].status_code = 500
    /\ resp[1].body.detail = "timed out"
    /\ Len(db["lesson"]) = 3
    /\ Len(db["word"]) = 5

\* the answer of a progress lookup that found a record
Found(r) == Answered(r, "progress") /\ ~IsNone(resp[r].body)

\* C8 as stated: the record a progress lookup answers is the one submitted
\* last for that user and lesson.
C8_LatestRecord ==
    \A r \in clients :
        Found(r) =>
            LET hits == ProgressOf(resp[r].args[1], resp[r].args[2])
            IN  resp[r].body = serialize_doc(hits[Len(hits)])

\* C8 amended: the record a progress lookup answers is the first matching
\* record in the order the store returns them, which is the oldest or the
\* newest of them.
C8_FirstInStoreOrder ==
    \A r \in clients :
        Answered(r, "progress") =>
            LET hits == ProgressOf(resp[r].args[1], resp[r].args[2])
            IN  hits # <<>> =>
                   \E ord \in Orders :
                       resp[r].body =
                           serialize_doc(
                               (IF ord = "forward" THEN hits
                                ELSE Reverse(hits))[1])

\* several records match and the one answered is not the newest
C8_Witness ==
    /\ Found(1)
    /\ LET hits == ProgressOf(resp[1].args[1], resp[1].args[2])
       IN  /\ Len(hits) >= 2
           /\ resp[1].body = serialize_doc(hits[1])
           /\ resp[1].body # serialize_doc(hits[Len(hits)])

\* C9: every interleaved seed request that answers "ok" reports 3 lessons
\* and 12 words created, and when both requests have answered "ok" each has
\* inserted its own: the collections hold twice the demo content.
C9_BothOkIsDoubleSeed ==
    /\ \A r \in clients :
          SeedOk(r) => resp[r].body.created = [lessons |-> 3, words |-> 12]
    /\ (\A r \in clients : SeedOk(r)) =>
          /\ Len(db["lesson"]) = 3 * Cardinality(clients)
          /\ Len(db["word"]) = 12 * Cardinality(clients)

\* the double seed
C9_Witness ==
    /\ clients = {1, 2}
    /\ SeedOk(1)
    /\ SeedOk(2)
    /\ Len(db["lesson"]) > 3
    /\ Len(db["word"]) > 12

\* C10: with no seed request under way, the lesson collection holds 0 or 3
\* lessons and every stored lesson has exactly 4 words; a seed request
\* answered "exists" finds 3 lessons and 12 words.
C10_DemoContentNeverPartial ==
    (\A r \in clients : seed[r].pc = "idle") =>
        /\ Len(db["lesson"]) \in {0, 3}
        /\ \A i \in 1..Len(db["lesson"]) :
              Cardinality(WordsOf(OidStr(db["lesson"][i]["_id"]))) = 4
        /\ \A r \in clients :
              SeedExists(r) =>
                  Len(db["lesson"]) = 3 /\ Len(db["word"]) = 12

====
